---------------------------- MODULE Spec2Model ----------------------------
(***************************************************************************)
(* Model of src/app.py: the supplier price-list reconciliation tool.       *)
(*                                                                         *)
(* Text is a sequence of one-character strings.  A float is an exact       *)
(* decimal [mant, exp] standing for mant / 10^exp, kept normalised so that *)
(* equal numbers are equal records.                                        *)
(***************************************************************************)
EXTENDS Integers, Sequences, FiniteSets, TLC

-----------------------------------------------------------------------------
(* Bounds of the model.                                                    *)

MaxLineLen == 6
MaxDescLen == 5
MaxPatLen == 3
MaxTextLen == 3
MaxMarginSteps == 3
MaxCostSteps == 12
MaxPresses == 3
MaxPageLines == 2
MaxRows == 2
MaxClock == 1

-----------------------------------------------------------------------------
(* Characters and text.                                                    *)

\* Python's \d on the characters used here.
IsDigit(c) == c \in {"0", "1", "2", "3", "4", "5", "6", "7", "8", "9"}

\* Python's \s, and the characters str.strip() removes.
IsSpace(c) == c \in {" ", "\t"}

UpperCase == <<"A", "B", "C", "D", "E", "F", "G", "H", "I", "J", "K", "L", "M",
               "N", "O", "P", "Q", "R", "S", "T", "U", "V", "W", "X", "Y", "Z">>
LowerCase == <<"a", "b", "c", "d", "e", "f", "g", "h", "i", "j", "k", "l", "m",
               "n", "o", "p", "q", "r", "s", "t", "u", "v", "w", "x", "y", "z">>

\* Case folding of one character (re.IGNORECASE compares folded characters).
Fold(c) ==
    IF \E i \in 1..26 : UpperCase[i] = c
    THEN LowerCase[CHOOSE i \in 1..26 : UpperCase[i] = c]
    ELSE c

\* s[from..], 1-based, empty when from is past the end.
Drop(s, from) == SubSeq(s, from, Len(s))

\* Length of the longest run of characters satisfying P that starts at s[i].
RECURSIVE DigitRun(_, _)
DigitRun(s, i) ==
    IF i <= Len(s) /\ IsDigit(s[i]) THEN 1 + DigitRun(s, i + 1) ELSE 0

RECURSIVE SpaceRun(_, _)
SpaceRun(s, i) ==
    IF i <= Len(s) /\ IsSpace(s[i]) THEN 1 + SpaceRun(s, i + 1) ELSE 0

RECURSIVE DigitCommaRun(_, _)
DigitCommaRun(s, i) ==
    IF i <= Len(s) /\ (IsDigit(s[i]) \/ s[i] = ",")
    THEN 1 + DigitCommaRun(s, i + 1) ELSE 0

\* Number of trailing whitespace characters of s.
RECURSIVE TrailingSpaces(_)
TrailingSpaces(s) ==
    IF Len(s) > 0 /\ IsSpace(s[Len(s)])
    THEN 1 + TrailingSpaces(SubSeq(s, 1, Len(s) - 1)) ELSE 0

\* str.rstrip() and str.strip()
RStrip(s) == SubSeq(s, 1, Len(s) - TrailingSpaces(s))

Strip(s) == RStrip(Drop(s, SpaceRun(s, 1) + 1))

\* The least number of a non-empty set of numbers.
Least(numbers) == CHOOSE x \in numbers : \A y \in numbers : x <= y

\* All texts over alphabet of length at most n.
RECURSIVE Texts(_, _)
Texts(alphabet, n) ==
    IF n = 0 THEN {<<>>}
    ELSE LET shorter == Texts(alphabet, n - 1)
         IN  shorter \cup {Append(t, c) : t \in {u \in shorter : Len(u) = n - 1},
                                          c \in alphabet}

-----------------------------------------------------------------------------
(* clean_description                                                       *)

\* re.sub(r"^\d+\s*", "", description): a leading digit run (one or more) and
\* the whitespace after it are removed; without a leading digit nothing is.
DropCode(description, k) ==
    IF k = 0 THEN description
    ELSE Drop(description, k + 1 + SpaceRun(description, k + 1))

SubLeadingCode(description) == DropCode(description, DigitRun(description, 1))

\* clean_description with at most one blank taken from each end instead of
\* all of them.
StripOnce(s) ==
    SubSeq(s, IF SpaceRun(s, 1) >= 1 THEN 2 ELSE 1,
              IF TrailingSpaces(s) >= 1 THEN Len(s) - 1 ELSE Len(s))

CleanStrippingOnce(description) == StripOnce(SubLeadingCode(description))

clean_description(description) == Strip(SubLeadingCode(description))

-----------------------------------------------------------------------------
(* extract_data_from_pdf: the line pattern                                 *)
(*   (\d+\s+)?(.+?)\s+\$\s*([\d,]+\.\d+)                                   *)
(* Every quantifier of the tail \s+\$\s*([\d,]+\.\d+) is greedy and is     *)
(* followed by a character outside its class, so only the longest run of   *)
(* each can lead to a match.                                               *)

NoMatch == [found |-> FALSE]
NoToken == <<0, 0>>

\* \.\d+ at line[dot]: the position of the last digit, 0 without a match.
FractionEnd(line, dot) ==
    IF dot <= Len(line) /\ line[dot] = "." /\ DigitRun(line, dot + 1) >= 1
    THEN dot + DigitRun(line, dot + 1)
    ELSE 0

\* ([\d,]+\.\d+) at line[t], its integer part g characters long.
TokenEnd(line, t, g) == IF g >= 1 THEN FractionEnd(line, t + g) ELSE 0

\* The span <<first, last>> of the numeric token that starts at line[t].
Token(line, t, last) == IF last > 0 THEN <<t, last>> ELSE NoToken

\* \$\s*([\d,]+\.\d+) at line[d]; v is the whitespace after the dollar sign.
AfterDollar(line, d, v) ==
    IF d <= Len(line) /\ line[d] = "$"
    THEN Token(line, d + 1 + v,
               TokenEnd(line, d + 1 + v, DigitCommaRun(line, d + 1 + v)))
    ELSE NoToken

\* \s+\$\s*([\d,]+\.\d+) after w characters of whitespace at line[q].
TailAfter(line, q, w) ==
    IF w >= 1 THEN AfterDollar(line, q + w, SpaceRun(line, q + w + 1))
    ELSE NoToken

\* The tail of the pattern matched at line[q]: the numeric token's span.
TailAt(line, q) == TailAfter(line, q, SpaceRun(line, q))

\* (.+?) starting at line[p] followed by the tail: the lengths e >= 1 of the
\* description for which the tail matches right after it.
DescLengths(line, p) ==
    {e \in 1..(Len(line) - p + 1) : TailAt(line, p + e) # NoToken}

\* The groups of a match: the description line[p..p+e-1] and the token tok.
Groups(line, p, e, tok) ==
    [found |-> TRUE,
     descripcion |-> SubSeq(line, p, p + e - 1),
     costo |-> SubSeq(line, tok[1], tok[2])]

DescMatch(line, p, e) == Groups(line, p, e, TailAt(line, p + e))

\* The pattern matched with the description starting at line[p]; the lazy
\* quantifier takes the shortest description.
MatchFrom(line, p) == DescMatch(line, p, Least(DescLengths(line, p)))

\* The ways the optional group (\d+\s+) can match at line[s], <<digits,
\* spaces>>, that let the rest of the pattern match.
CodeSplits(line, s) ==
    {ks \in (1..DigitRun(line, s)) \X (1..Len(line)) :
        /\ ks[2] <= SpaceRun(line, s + ks[1])
        /\ DescLengths(line, s + ks[1] + ks[2]) # {}}

\* The split a greedy group settles on: the longest digit run, then the
\* longest whitespace run; its length.
GreedySplit(splits) ==
    CHOOSE ks \in splits : \A o \in splits :
        \/ ks[1] > o[1]
        \/ ks[1] = o[1] /\ ks[2] >= o[2]

SplitLen(ks) == ks[1] + ks[2]

\* The pattern anchored at line[s].  The optional group is tried first and
\* left out only when no split of it lets the rest match.
MatchWithCode(line, s, splits) ==
    IF splits # {} THEN MatchFrom(line, s + SplitLen(GreedySplit(splits)))
    ELSE IF DescLengths(line, s) # {} THEN MatchFrom(line, s)
    ELSE NoMatch

MatchAt(line, s) == MatchWithCode(line, s, CodeSplits(line, s))

\* re.search: the match at the leftmost position that has one.
LeftmostMatch(line, starts) ==
    IF starts = {} THEN NoMatch ELSE MatchAt(line, Least(starts))

Search(line) ==
    LeftmostMatch(line, {s \in 1..Len(line) : MatchAt(line, s).found})

-----------------------------------------------------------------------------
(* Numbers: float(costo.replace(",", "")) and round(x, 2)                  *)

RECURSIVE Pow10(_)
Pow10(n) == IF n = 0 THEN 1 ELSE 10 * Pow10(n - 1)

DigitChars == <<"0", "1", "2", "3", "4", "5", "6", "7", "8", "9">>
DigitValue(c) == (CHOOSE i \in 1..10 : DigitChars[i] = c) - 1

\* The decimal mant / 10^exp with no trailing zero in its fraction, so that
\* equal numbers are equal records (1.50 and 1.5 are the same float).
RECURSIVE Dec(_, _)
Dec(mant, exp) ==
    IF exp > 0 /\ mant % 10 = 0 THEN Dec(mant \div 10, exp - 1)
    ELSE [mant |-> mant, exp |-> exp]

\* costo.replace(",", "")
RECURSIVE RemoveCommas(_)
RemoveCommas(tok) ==
    IF tok = <<>> THEN <<>>
    ELSE IF Head(tok) = "," THEN RemoveCommas(Tail(tok))
    ELSE <<Head(tok)>> \o RemoveCommas(Tail(tok))

\* The digits of s read as a natural number (0 for no digits); s holds
\* digits and at most one decimal point, which is skipped.
RECURSIVE DigitsValue(_)
DigitsValue(s) ==
    IF s = <<>> THEN 0
    ELSE IF s[Len(s)] = "." THEN DigitsValue(SubSeq(s, 1, Len(s) - 1))
    ELSE 10 * DigitsValue(SubSeq(s, 1, Len(s) - 1)) + DigitValue(s[Len(s)])

\* float() of a text of the form digits* "." digits+ (what is left of a
\* matched token once its commas are gone).
ToFloat(s) ==
    Dec(DigitsValue(s), Len(s) - (CHOOSE i \in 1..Len(s) : s[i] = "."))

\* round(costo * (1 + utilidad / 100), 2), utilidad a whole percentage.  The
\* product is costo.mant * (100 + utilidad) / 10^costo.exp cents.  When
\* that lies exactly halfway between two cents the binary float lies just
\* below, just above or on the midpoint, so either neighbour can come out.
RoundCents(n, d) ==
    IF 2 * (n % d) < d THEN {Dec(n \div d, 2)}
    ELSE IF 2 * (n % d) > d THEN {Dec(n \div d + 1, 2)}
    ELSE {Dec(n \div d, 2), Dec(n \div d + 1, 2)}

Round2Outcomes(costo, utilidad) ==
    RoundCents(costo.mant * (100 + utilidad), Pow10(costo.exp))

-----------------------------------------------------------------------------
(* extract_data_from_pdf                                                   *)

\* One line of text: the (descripcion, costo) it adds to data, if any.
Record(match) ==
    IF match.found
    THEN <<[descripcion |-> clean_description(match.descripcion),
            costo |-> ToFloat(RemoveCommas(match.costo))]>>
    ELSE <<>>

ParseLine(line) == Record(Search(line))

RECURSIVE ParseLines(_)
ParseLines(lines) ==
    IF lines = <<>> THEN <<>>
    ELSE ParseLine(Head(lines)) \o ParseLines(Tail(lines))

\* A document is the sequence of its pages, a page the sequence of the lines
\* of its text (no line for a page without text).
RECURSIVE extract_data_from_pdf(_)
extract_data_from_pdf(pdf_file) ==
    IF pdf_file = <<>> THEN <<>>
    ELSE ParseLines(Head(pdf_file)) \o extract_data_from_pdf(Tail(pdf_file))

-----------------------------------------------------------------------------
(* The catalog: pd.read_excel and Series.str.contains                      *)

\* A workbook is [columns, rows]: the header cells as written and, per row,
\* the cells under them.  A cell is a text or NaN (an empty cell).
NaN == <<"NaN">>

column_codigo == <<"C", "O", "D", "I", "G", "O">>
column_desc == <<"P", "R", "O", "D", "U", "C", "T", "O">>
column_costo == <<"C", "O", "S", "T", "O">>

\* df_excel.columns = df_excel.columns.str.strip()
StripColumns(excel_file) ==
    [columns |-> [i \in DOMAIN excel_file.columns |-> Strip(excel_file.columns[i])],
     rows |-> excel_file.rows]

HasColumn(df, col) == \E i \in DOMAIN df.columns : df.columns[i] = col

\* row[col], col a column of df.
Cell(df, row, col) == row[CHOOSE i \in DOMAIN df.columns : df.columns[i] = col]

\* The .str accessor exists only on a column that holds text: a column read
\* from cells that are all empty is a float column of NaN.
IsTextColumn(df, col) ==
    \/ df.rows = <<>>
    \/ \E r \in DOMAIN df.rows : Cell(df, df.rows[r], col) # NaN

\* re.compile(pat) fails: of the characters of the model only "(" can make a
\* pattern invalid (a group that is never closed).
InvalidPattern(pat) == \E i \in DOMAIN pat : pat[i] = "("

\* The compiled pattern pat[j..] matches text at position i, ignoring case.
\* "." is any character, "$" the end of the text, anything else itself.
RECURSIVE PatternMatchesAt(_, _, _, _)
PatternMatchesAt(pat, j, text, i) ==
    IF j > Len(pat) THEN TRUE
    ELSE IF pat[j] = "$"
         THEN i = Len(text) + 1 /\ PatternMatchesAt(pat, j + 1, text, i)
    ELSE /\ i <= Len(text)
         /\ (pat[j] = "." \/ Fold(pat[j]) = Fold(text[i]))
         /\ PatternMatchesAt(pat, j + 1, text, i + 1)

\* One cell under Series.str.contains(pat, case=False, na=False): regex is
\* left at its default, True, so pat is searched as a regular expression.
CellContains(cell, pat) ==
    /\ cell # NaN
    /\ \E i \in 1..(Len(cell) + 1) : PatternMatchesAt(pat, 1, cell, i)

\* df_excel[df_excel[column_desc].str.contains(desc, case=False, na=False)]:
\* the indices of the rows kept, in row order.
RECURSIVE MatchRows(_, _, _)
MatchRows(df, desc, r) ==
    IF r > Len(df.rows) THEN <<>>
    ELSE (IF CellContains(Cell(df, df.rows[r], column_desc), desc)
          THEN <<r>> ELSE <<>>) \o MatchRows(df, desc, r + 1)

-----------------------------------------------------------------------------
(* update_prices                                                           *)

\* What one pass of the loop body, or the whole loop, leaves behind.  matched
\* pairs each catalog code with the cost it was given, in the order of the
\* rows of the two matched tables; cost_origin and not_found_origin give, for
\* each row of updated_cost_data and of not_found_data, the position in
\* pdf_data of the record that produced it.
Accumulated(cost_rows, pairs, cost_from, not_found, not_found_from) ==
    [exception |-> "",
     updated_cost_data |-> cost_rows,
     matched |-> pairs,
     cost_origin |-> cost_from,
     not_found_data |-> not_found,
     not_found_origin |-> not_found_from]

Raised(exception) ==
    [Accumulated(<<>>, <<>>, <<>>, <<>>, <<>>) EXCEPT !.exception = exception]

\* new_row: every column of the template left blank, then CODIGO, PRODUCTO
\* and COSTO filled in.
NewRow(df, row, costo) ==
    [col \in {df.columns[i] : i \in DOMAIN df.columns}
               \cup {column_codigo, column_desc, column_costo} |->
        IF col = column_costo THEN costo
        ELSE IF col \in {column_codigo, column_desc} THEN Cell(df, row, col)
        ELSE <<>>]

\* AppendMatches with the price row written once per record instead of once
\* per matching row.
AppendOnePrice(df, match, costo, k) ==
    Accumulated([i \in DOMAIN match |-> NewRow(df, df.rows[match[i]], costo)],
                <<[CODIGO |-> Cell(df, df.rows[match[1]], column_codigo),
                   costo |-> costo]>>,
                [i \in DOMAIN match |-> k],
                <<>>, <<>>)

\* The rows one record appends for the catalog rows match (indices into
\* df.rows), one per matching row.
AppendMatches(df, match, costo, k) ==
    Accumulated([i \in DOMAIN match |-> NewRow(df, df.rows[match[i]], costo)],
                [i \in DOMAIN match |->
                    [CODIGO |-> Cell(df, df.rows[match[i]], column_codigo),
                     costo |-> costo]],
                [i \in DOMAIN match |-> k],
                <<>>, <<>>)

\* Route with the else forgotten: the record is listed as not found even
\* when catalog rows matched it.
RouteListingAll(df, record, k, match) ==
    IF match # <<>>
    THEN IF ~HasColumn(df, column_codigo) THEN Raised("KeyError")
         ELSE [AppendMatches(df, match, record.costo, k) EXCEPT
                  !.not_found_data = <<<<record.descripcion, record.costo>>>>,
                  !.not_found_origin = <<k>>]
    ELSE Accumulated(<<>>, <<>>, <<>>,
                     <<<<record.descripcion, record.costo>>>>, <<k>>)

\* `if not match.empty: ... else: ...` for the k-th record.
Route(df, record, k, match) ==
    IF match # <<>>
    THEN IF ~HasColumn(df, column_codigo) THEN Raised("KeyError")
         ELSE AppendMatches(df, match, record.costo, k)
    ELSE Accumulated(<<>>, <<>>, <<>>,
                     <<<<record.descripcion, record.costo>>>>, <<k>>)

\* The body of `for desc, costo in pdf_data` for the k-th record.
LoopBody(df, record, k) ==
    IF ~HasColumn(df, column_desc) THEN Raised("KeyError")
    ELSE IF ~IsTextColumn(df, column_desc) THEN Raised("AttributeError")
    ELSE IF InvalidPattern(record.descripcion) THEN Raised("re.error")
    ELSE Route(df, record, k, MatchRows(df, record.descripcion, 1))

\* The loop over pdf_data[k..]; an exception ends it and nothing is kept.
Then(first, rest) ==
    IF first.exception # "" THEN first
    ELSE IF rest.exception # "" THEN rest
    ELSE Accumulated(first.updated_cost_data \o rest.updated_cost_data,
                     first.matched \o rest.matched,
                     first.cost_origin \o rest.cost_origin,
                     first.not_found_data \o rest.not_found_data,
                     first.not_found_origin \o rest.not_found_origin)

RECURSIVE Loop(_, _, _)
Loop(df, pdf_data, k) ==
    IF k > Len(pdf_data) THEN Accumulated(<<>>, <<>>, <<>>, <<>>, <<>>)
    ELSE Then(LoopBody(df, pdf_data[k], k), Loop(df, pdf_data, k + 1))

\* PriceRows with the two margins taken for each other.
PriceRowsSwapped(pair, utilidad_minorista, utilidad_mayorista) ==
    {<<pair.CODIGO, precio_minorista, precio_mayorista>> :
        precio_minorista \in Round2Outcomes(pair.costo, utilidad_mayorista),
        precio_mayorista \in Round2Outcomes(pair.costo, utilidad_minorista)}

\* The rows updated_price_data can hold for one matched pair.
PriceRows(pair, utilidad_minorista, utilidad_mayorista) ==
    {<<pair.CODIGO, precio_minorista, precio_mayorista>> :
        precio_minorista \in Round2Outcomes(pair.costo, utilidad_minorista),
        precio_mayorista \in Round2Outcomes(pair.costo, utilidad_mayorista)}

\* The tables updated_price_data can be for the matched pairs, row by row.
RECURSIVE PriceTables(_, _, _)
PriceTables(pairs, utilidad_minorista, utilidad_mayorista) ==
    IF pairs = <<>> THEN {<<>>}
    ELSE {<<row>> \o rest :
            row \in PriceRows(Head(pairs), utilidad_minorista, utilidad_mayorista),
            rest \in PriceTables(Tail(pairs), utilidad_minorista, utilidad_mayorista)}

\* The value of a call: nothing yet, an exception, or the three tables and
\* the timestamp.  pdf_data and the origins are kept to state the properties.
Result(status, exception, pdf_data, loop, precios, timestamp) ==
    [status |-> status,
     exception |-> exception,
     pdf_data |-> pdf_data,
     output_costos |-> loop.updated_cost_data,
     output_precios |-> precios,
     output_not_found |-> loop.not_found_data,
     cost_origin |-> loop.cost_origin,
     not_found_origin |-> loop.not_found_origin,
     timestamp |-> timestamp]

NotCalled == Result("none", "", <<>>, Raised(""), <<>>, 0)

\* The ways the call can end once the loop is over: the exception, or the
\* tables written and returned with the timestamp.
Outcomes(pdf_data, loop, utilidad_minorista, utilidad_mayorista, now) ==
    IF loop.exception # ""
    THEN {Result("raised", loop.exception, pdf_data, Raised(""), <<>>, 0)}
    ELSE {Result("returned", "", pdf_data, loop, precios, now) :
            precios \in PriceTables(loop.matched, utilidad_minorista,
                                    utilidad_mayorista)}

Reconcile(pdf_data, df_excel, utilidad_minorista, utilidad_mayorista, now) ==
    Outcomes(pdf_data, Loop(df_excel, pdf_data, 1),
             utilidad_minorista, utilidad_mayorista, now)

\* Every way a call of update_prices at time now can end.
update_prices(pdf_file, excel_file, utilidad_minorista, utilidad_mayorista, now) ==
    Reconcile(extract_data_from_pdf(pdf_file.pages), StripColumns(excel_file),
              utilidad_minorista, utilidad_mayorista, now)

-----------------------------------------------------------------------------
(* State                                                                   *)

VARIABLES
    pdf_file,            \* the uploaded document: [uploaded, pages]
    excel_file,          \* the uploaded workbook: [uploaded, columns, rows]
    utilidad_minorista,  \* the retail margin, a whole percentage
    utilidad_mayorista,  \* the wholesale margin, a whole percentage
    clock,               \* datetime.now(), in seconds
    result,              \* how the call of update_prices ended
    session_state,       \* st.session_state: a function from keys to values
    notice,              \* what the last press showed: success, error, exception
    presses,             \* button presses so far; names the buffers of a run
    last_ok,             \* the most recent press whose run returned
    parse,               \* one line through the record parser
    clean,               \* one description through clean_description, twice
    contains,            \* one description searched in one catalog cell
    price                \* one cost through the price calculation

vars == <<pdf_file, excel_file, utilidad_minorista, utilidad_mayorista, clock,
          result, session_state, notice, presses, last_ok,
          parse, clean, contains, price>>

widgets == <<pdf_file, excel_file, utilidad_minorista, utilidad_mayorista>>
session == <<session_state, notice, presses, last_ok>>
functions == <<parse, clean, contains, price>>

-----------------------------------------------------------------------------
(* Inputs                                                                  *)

NoFile == [uploaded |-> FALSE, pages |-> <<>>]
NoWorkbook == [uploaded |-> FALSE, columns |-> <<>>, rows |-> <<>>]

\* Lines of a price list:
\*   "7 ab $1.2"   a code, a name, a price
\*   "a.b $ 2.2"   a name with a dot
\*   "(a $1.0"     a name with an opening parenthesis
\*   "7 $1.005"    a code and a price, no name
\*   "ab $12"      a price without decimals
Lines == {<<"7", " ", "a", "b", " ", "$", "1", ".", "2">>,
          <<"a", ".", "b", " ", "$", " ", "2", ".", "2">>,
          <<"(", "a", " ", "$", "1", ".", "0">>,
          <<"7", " ", "$", "1", ".", "0", "0", "5">>,
          <<"a", "b", " ", "$", "1", "2">>}

Pages == Texts(Lines, MaxPageLines)

\* Documents of no page, of one page, of a page without text and a page of
\* one line, and of two pages of one line.
Documents ==
    {<<>>} \cup {<<page>> : page \in Pages}
           \cup {<<<<>>, <<line>>>> : line \in Lines}
           \cup {<<<<first>>, <<second>>>> : first \in Lines, second \in Lines}

\* Catalog entries <<code, product>>: "xAB", "acb" and an empty product cell.
Entries == {<<<<"1">>, <<"x", "A", "B">>>>,
            <<<<"2">>, <<"a", "c", "b">>>>,
            <<<<"3">>, NaN>>}

\* Header rows: the two required headers, the same with stray blanks, one
\* without PRODUCTO, one without CODIGO.
Headers == {<<column_codigo, column_desc>>,
            <<<<" ">> \o column_codigo, column_desc \o <<" ">>>>,
            <<column_codigo, column_costo>>,
            <<column_desc>>}

\* The workbook with the given header row and one row per entry.
Workbook(header, entries) ==
    [uploaded |-> TRUE,
     columns |-> header,
     rows |-> [r \in DOMAIN entries |->
                 [i \in DOMAIN header |->
                     IF Strip(header[i]) = column_codigo THEN entries[r][1]
                     ELSE IF Strip(header[i]) = column_desc THEN entries[r][2]
                     ELSE <<>>]]]

Workbooks ==
    {Workbook(header, entries) :
        header \in Headers, entries \in Texts(Entries, MaxRows)}

\* Margin pairs <<minorista, mayorista>>: the form's defaults and another.
MarginPairs == {<<30, 20>>, <<0, 45>>}

-----------------------------------------------------------------------------
(* Specification Spec: update_prices called once on any document, workbook *)
(* and margins.                                                            *)

SessionIdle ==
    /\ session_state = [key \in {} |-> 0]
    /\ notice = ""
    /\ presses = 0
    /\ last_ok = [run |-> 0, timestamp |-> 0]

ParseIdle == parse = [line |-> <<>>, data |-> <<>>, done |-> FALSE]
CleanIdle == clean = [description |-> <<>>, once |-> <<>>, twice |-> <<>>, calls |-> 0]
ContainsIdle == contains = [desc |-> <<>>, cell |-> <<>>, outcome |-> ""]
PriceIdle == price = [costo |-> Dec(0, 0), utilidad_minorista |-> 0,
                      utilidad_mayorista |-> 0, rows |-> <<>>]

FunctionsIdle == ParseIdle /\ CleanIdle /\ ContainsIdle /\ PriceIdle

Init ==
    /\ pdf_file \in {[uploaded |-> TRUE, pages |-> d] : d \in Documents}
    /\ excel_file \in Workbooks
    /\ \E m \in MarginPairs : utilidad_minorista = m[1] /\ utilidad_mayorista = m[2]
    /\ clock = 0
    /\ result = NotCalled
    /\ SessionIdle
    /\ FunctionsIdle

CallUpdatePrices ==
    /\ result.status = "none"
    /\ result' \in update_prices(pdf_file, excel_file, utilidad_minorista,
                                 utilidad_mayorista, clock)
    /\ UNCHANGED <<widgets, clock, session, functions>>

Next == CallUpdatePrices

Spec == Init /\ [][Next]_vars

-----------------------------------------------------------------------------
(* Specification SpecParse: the record parser on every line over a small   *)
(* alphabet.                                                               *)

WidgetsIdle ==
    /\ pdf_file = NoFile
    /\ excel_file = NoWorkbook
    /\ utilidad_minorista = 30
    /\ utilidad_mayorista = 20
    /\ clock = 0
    /\ result = NotCalled

LineAlphabet == {"1", "a", " ", "$", ".", ","}

InitParse ==
    /\ parse \in {[line |-> line, data |-> <<>>, done |-> FALSE] :
                    line \in Texts(LineAlphabet, MaxLineLen)}
    /\ WidgetsIdle /\ SessionIdle
    /\ CleanIdle /\ ContainsIdle /\ PriceIdle

ParseOne ==
    /\ ~parse.done
    /\ parse' = [parse EXCEPT !.data = ParseLine(parse.line), !.done = TRUE]
    /\ UNCHANGED <<widgets, clock, result, session, clean, contains, price>>

SpecParse == InitParse /\ [][ParseOne]_vars

-----------------------------------------------------------------------------
(* Specification SpecClean: clean_description applied, and applied again    *)
(* to its own result.                                                      *)

DescAlphabet == {"1", "a", " "}

InitClean ==
    /\ clean \in {[description |-> d, once |-> <<>>, twice |-> <<>>, calls |-> 0] :
                    d \in Texts(DescAlphabet, MaxDescLen)}
    /\ WidgetsIdle /\ SessionIdle
    /\ ParseIdle /\ ContainsIdle /\ PriceIdle

NormalizeOnce ==
    /\ clean.calls = 0
    /\ clean' = [clean EXCEPT !.once = clean_description(clean.description),
                              !.calls = 1]
    /\ UNCHANGED <<widgets, clock, result, session, parse, contains, price>>

NormalizeAgain ==
    /\ clean.calls = 1
    /\ clean' = [clean EXCEPT !.twice = clean_description(clean.once),
                              !.calls = 2]
    /\ UNCHANGED <<widgets, clock, result, session, parse, contains, price>>

NextClean == NormalizeOnce \/ NormalizeAgain

SpecClean == InitClean /\ [][NextClean]_vars

-----------------------------------------------------------------------------
(* Specification SpecMatch: one record searched in a catalog of one row.   *)

MatchAlphabet == {"a", "A", "b", ".", "("}

\* The catalog with the two required headers and the one product cell.
OneRow(cell) ==
    StripColumns(Workbook(<<column_codigo, column_desc>>, <<<<<<"1">>, cell>>>>))

InitMatch ==
    /\ contains \in {[desc |-> d, cell |-> c, outcome |-> ""] :
                        d \in Texts(MatchAlphabet, MaxPatLen),
                        c \in Texts(MatchAlphabet, MaxTextLen)}
    /\ WidgetsIdle /\ SessionIdle
    /\ ParseIdle /\ CleanIdle /\ PriceIdle

\* What the loop body did with the record: matched it, listed it as not
\* found, or raised.
Outcome(loop) ==
    IF loop.exception # "" THEN loop.exception
    ELSE IF loop.matched # <<>> THEN "matched"
    ELSE "not found"

SearchCell ==
    /\ contains.outcome = ""
    /\ contains' = [contains EXCEPT !.outcome =
            Outcome(LoopBody(OneRow(contains.cell),
                             [descripcion |-> contains.desc, costo |-> Dec(1, 0)],
                             1))]
    /\ UNCHANGED <<widgets, clock, result, session, parse, clean, price>>

SpecMatch == InitMatch /\ [][SearchCell]_vars

-----------------------------------------------------------------------------
(* Specification SpecPrice: the prices of one cost under one pair of       *)
(* margins, and again after the margins were changed.                      *)

\* Costs from 0 to 1.5 in steps of 0.125, margins in steps of 15 percent.
Costs == {Dec(125 * k, 3) : k \in 0..MaxCostSteps}
Margins == {15 * k : k \in 0..MaxMarginSteps}

InitPrice ==
    /\ price \in {[costo |-> c, utilidad_minorista |-> m, utilidad_mayorista |-> n,
                   rows |-> <<>>] : c \in Costs, m \in Margins, n \in Margins}
    /\ WidgetsIdle /\ SessionIdle
    /\ ParseIdle /\ CleanIdle /\ ContainsIdle

\* One row of updated_price_data, kept with the margins it was made under.
CalculatePrices ==
    /\ Len(price.rows) < 2
    /\ \E row \in PriceRows([CODIGO |-> <<"1">>, costo |-> price.costo],
                            price.utilidad_minorista, price.utilidad_mayorista) :
          price' = [price EXCEPT !.rows = Append(@,
                        [utilidad_minorista |-> price.utilidad_minorista,
                         utilidad_mayorista |-> price.utilidad_mayorista,
                         precio_minorista |-> row[2],
                         precio_mayorista |-> row[3]])]
    /\ UNCHANGED <<widgets, clock, result, session, parse, clean, contains>>

ChangeMargins(m, n) ==
    /\ Len(price.rows) = 1
    /\ <<m, n>> # <<price.utilidad_minorista, price.utilidad_mayorista>>
    /\ price' = [price EXCEPT !.utilidad_minorista = m, !.utilidad_mayorista = n]
    /\ UNCHANGED <<widgets, clock, result, session, parse, clean, contains>>

NextPrice ==
    \/ CalculatePrices
    \/ \E m \in Margins, n \in Margins : ChangeMargins(m, n)

SpecPrice == InitPrice /\ [][NextPrice]_vars

-----------------------------------------------------------------------------
(* Specification SpecApp: the page.  Files are uploaded and removed, the   *)
(* margins set, the button pressed, while time passes.                     *)

Keys == {"output_costos", "output_precios", "output_not_found", "timestamp"}

\* A BytesIO written by the run of press number run.
Buffer(run, table) == [run |-> run, table |-> table]

\* StoreOutputs with the timestamp set only when none is stored yet.
StoreKeepingTimestamp(state, run, r) ==
    [key \in DOMAIN state \cup Keys |->
        IF key = "output_costos" THEN Buffer(run, r.output_costos)
        ELSE IF key = "output_precios" THEN Buffer(run, r.output_precios)
        ELSE IF key = "output_not_found" THEN Buffer(run, r.output_not_found)
        ELSE IF key = "timestamp" /\ key \notin DOMAIN state THEN r.timestamp
        ELSE state[key]]

\* The four entries of st.session_state are assigned.
StoreOutputs(state, run, r) ==
    [key \in DOMAIN state \cup Keys |->
        IF key = "output_costos" THEN Buffer(run, r.output_costos)
        ELSE IF key = "output_precios" THEN Buffer(run, r.output_precios)
        ELSE IF key = "output_not_found" THEN Buffer(run, r.output_not_found)
        ELSE IF key = "timestamp" THEN r.timestamp
        ELSE state[key]]

OutputKeys == Keys \ {"timestamp"}

\* The download buttons the page shows, by the key of their data: none
\* until output_costos is in the session state, then three, each file named
\* after the stored timestamp.
DownloadButtons(state) ==
    IF "output_costos" \in DOMAIN state
    THEN [key \in OutputKeys |->
            [data |-> state[key], file_name |-> <<key, state["timestamp"]>>]]
    ELSE [key \in {} |-> 0]

AppDocuments == {<<>>,
                 <<<<<<"7", " ", "a", "b", " ", "$", "1", ".", "2">>>>>>,
                 <<<<<<"(", "a", " ", "$", "1", ".", "0">>>>>>}

AppWorkbooks == {Workbook(<<column_codigo, column_desc>>,
                          <<<<<<"1">>, <<"x", "A", "B">>>>>>),
                 Workbook(<<column_codigo, column_costo>>,
                          <<<<<<"1">>, <<"x", "A", "B">>>>>>)}

InitApp ==
    /\ pdf_file = NoFile
    /\ excel_file = NoWorkbook
    /\ utilidad_minorista = 30
    /\ utilidad_mayorista = 20
    /\ clock = 0
    /\ result = NotCalled
    /\ SessionIdle
    /\ FunctionsIdle

UploadPdf(document) ==
    /\ pdf_file' = [uploaded |-> TRUE, pages |-> document]
    /\ UNCHANGED <<excel_file, utilidad_minorista, utilidad_mayorista, clock,
                   result, session, functions>>

UploadExcel(workbook) ==
    /\ excel_file' = workbook
    /\ UNCHANGED <<pdf_file, utilidad_minorista, utilidad_mayorista, clock,
                   result, session, functions>>

RemovePdf ==
    /\ pdf_file.uploaded
    /\ pdf_file' = NoFile
    /\ UNCHANGED <<excel_file, utilidad_minorista, utilidad_mayorista, clock,
                   result, session, functions>>

RemoveExcel ==
    /\ excel_file.uploaded
    /\ excel_file' = NoWorkbook
    /\ UNCHANGED <<pdf_file, utilidad_minorista, utilidad_mayorista, clock,
                   result, session, functions>>

SetMargins(m) ==
    /\ utilidad_minorista' = m[1]
    /\ utilidad_mayorista' = m[2]
    /\ UNCHANGED <<pdf_file, excel_file, clock, result, session, functions>>

Tick ==
    /\ clock < MaxClock
    /\ clock' = clock + 1
    /\ UNCHANGED <<widgets, result, session, functions>>

\* The handler once the call ended the way r: an exception leaves the
\* handler at once, a return is announced and stored.
Handle(r) ==
    IF r.status = "returned"
    THEN /\ notice' = "success"
         /\ session_state' = StoreOutputs(session_state, presses + 1, r)
         /\ last_ok' = [run |-> presses + 1, timestamp |-> r.timestamp]
    ELSE /\ notice' = "exception"
         /\ UNCHANGED <<session_state, last_ok>>

\* The button is pressed and the script runs again.
PressButton ==
    /\ presses < MaxPresses
    /\ presses' = presses + 1
    /\ IF pdf_file.uploaded /\ excel_file.uploaded
       THEN \E r \in update_prices(pdf_file, excel_file, utilidad_minorista,
                                   utilidad_mayorista, clock) : Handle(r)
       ELSE /\ notice' = "error"
            /\ UNCHANGED <<session_state, last_ok>>
    /\ UNCHANGED <<widgets, clock, result, functions>>

NextApp ==
    \/ \E document \in AppDocuments : UploadPdf(document)
    \/ \E workbook \in AppWorkbooks : UploadExcel(workbook)
    \/ RemovePdf
    \/ RemoveExcel
    \/ \E m \in MarginPairs : SetMargins(m)
    \/ Tick
    \/ PressButton

SpecApp == InitApp /\ [][NextApp]_vars

-----------------------------------------------------------------------------
(* Properties of update_prices, under Spec.                                *)

Called == result.status # "none"
Returned == result.status = "returned"

\* The catalog as update_prices sees it.
Catalog == StripColumns(excel_file)

\* The rows of a table whose origin is the k-th record.
RowsFrom(origin, k) == {i \in DOMAIN origin : origin[i] = k}

\* Each row of the matched and of the not-found table is the k-th record's
\* own: it carries that record's cost, and a not-found row its description.
RowsCarryRecords ==
    /\ \A i \in DOMAIN result.cost_origin :
          /\ result.cost_origin[i] \in DOMAIN result.pdf_data
          /\ result.output_costos[i][column_costo]
                = result.pdf_data[result.cost_origin[i]].costo
    /\ \A i \in DOMAIN result.not_found_origin :
          /\ result.not_found_origin[i] \in DOMAIN result.pdf_data
          /\ result.output_not_found[i]
                = <<result.pdf_data[result.not_found_origin[i]].descripcion,
                    result.pdf_data[result.not_found_origin[i]].costo>>

\* C1: when update_prices returns, every record extracted from the document
\* has either one or more rows in the matched tables and none in the
\* not-found table, or exactly one row in the not-found table and none in
\* the matched tables; the number of records is the number of not-found rows
\* plus the number of distinct records behind the matched rows.
C1_PartitionTotality ==
    Returned =>
        /\ Len(result.cost_origin) = Len(result.output_costos)
        /\ Len(result.output_precios) = Len(result.output_costos)
        /\ Len(result.not_found_origin) = Len(result.output_not_found)
        /\ RowsCarryRecords
        /\ \A k \in DOMAIN result.pdf_data :
              \/ /\ Cardinality(RowsFrom(result.cost_origin, k)) >= 1
                 /\ RowsFrom(result.not_found_origin, k) = {}
              \/ /\ RowsFrom(result.cost_origin, k) = {}
                 /\ Cardinality(RowsFrom(result.not_found_origin, k)) = 1
        /\ Len(result.pdf_data)
              = Len(result.output_not_found)
                + Cardinality({result.cost_origin[i] : i \in DOMAIN result.cost_origin})

\* A run that returned with one record matched by two catalog rows and
\* another record not found.
C1_Witness ==
    /\ Returned
    /\ \E k \in DOMAIN result.pdf_data :
          Cardinality(RowsFrom(result.cost_origin, k)) = 2
    /\ \E k \in DOMAIN result.pdf_data :
          Cardinality(RowsFrom(result.not_found_origin, k)) = 1

\* C2: whenever the catalog lacks the CODIGO header or the PRODUCTO header,
\* a call of update_prices raises and returns no table, whatever the
\* document.
C2_FatalPath ==
    (Called /\ ~(HasColumn(Catalog, column_codigo) /\ HasColumn(Catalog, column_desc)))
        => result.status = "raised"

\* C4: whenever the catalog has both required headers, update_prices returns
\* its three tables whatever the document holds.  Stated for catalogs whose
\* PRODUCTO column holds text, so that only the document is left to blame.
C4_AlwaysCompletes ==
    (/\ Called
     /\ HasColumn(Catalog, column_codigo)
     /\ HasColumn(Catalog, column_desc)
     /\ IsTextColumn(Catalog, column_desc))
        => Returned

\* The pairs <<record, catalog row>> of a run in the order the claim gives:
\* records in document order, and for each the catalog rows it matches in row
\* order.
RECURSIVE FanOut(_, _, _)
FanOut(df, pdf_data, k) ==
    IF k > Len(pdf_data) THEN <<>>
    ELSE LET match == MatchRows(df, pdf_data[k].descripcion, 1)
         IN  [i \in DOMAIN match |-> <<k, match[i]>>] \o FanOut(df, pdf_data, k + 1)

\* C8: when update_prices returns, the cost table and the price table each
\* hold exactly one row per record and catalog row matching it, in document
\* order and then catalog order, nothing merged; the i-th rows of the two
\* tables carry the same catalog code.
C8_FanOutAligned ==
    Returned =>
        LET pairs == FanOut(Catalog, result.pdf_data, 1)
        IN  /\ Len(result.output_costos) = Len(pairs)
            /\ Len(result.output_precios) = Len(pairs)
            /\ \A i \in DOMAIN pairs :
                  LET row == Catalog.rows[pairs[i][2]]
                  IN  /\ result.cost_origin[i] = pairs[i][1]
                      /\ result.output_costos[i][column_codigo]
                            = Cell(Catalog, row, column_codigo)
                      /\ result.output_costos[i][column_desc]
                            = Cell(Catalog, row, column_desc)
                      /\ result.output_costos[i][column_costo]
                            = result.pdf_data[pairs[i][1]].costo
                      /\ result.output_precios[i][1]
                            = result.output_costos[i][column_codigo]

\* A run in which two records each matched the same two catalog rows, which
\* share their description: four rows in each table.
C8_Witness ==
    /\ Returned
    /\ Len(result.output_costos) = 4
    /\ Len(result.output_precios) = 4
    /\ result.cost_origin = <<1, 1, 2, 2>>
    /\ result.output_costos[1][column_desc] = result.output_costos[2][column_desc]
    /\ result.output_costos[1][column_codigo] = result.output_costos[3][column_codigo]

-----------------------------------------------------------------------------
(* Properties of the catalog matcher, under SpecMatch.                     *)

\* text holds d as a literal substring, letter case ignored.
LiteralContains(text, d) ==
    \E i \in 1..(Len(text) - Len(d) + 1) :
        \A j \in 1..Len(d) : Fold(text[i + j - 1]) = Fold(d[j])

\* C3: a catalog row is matched by a description d exactly when its PRODUCTO
\* text holds d as a literal substring, letter case ignored, every character
\* of d standing for itself; a longer description never matches.  Stated for
\* the searches that end without an exception.
C3_LiteralContainment ==
    contains.outcome \in {"matched", "not found"} =>
        /\ contains.outcome = "matched"
              <=> LiteralContains(contains.cell, contains.desc)
        /\ Len(contains.desc) > Len(contains.cell)
              => contains.outcome = "not found"

-----------------------------------------------------------------------------
(* Properties of the record parser, under SpecParse.                       *)

\* tok has the form digits(,digits)*.digits+ : an integer part of digits and
\* single commas that begins and ends with a digit, a decimal point, digits.
IsGrouped(int) ==
    /\ int # <<>>
    /\ IsDigit(int[1]) /\ IsDigit(int[Len(int)])
    /\ \A i \in DOMAIN int : IsDigit(int[i]) \/ int[i] = ","
    /\ \A i \in 1..(Len(int) - 1) : ~(int[i] = "," /\ int[i + 1] = ",")

IsPriceToken(tok) ==
    \E dot \in DOMAIN tok :
        /\ tok[dot] = "."
        /\ IsGrouped(SubSeq(tok, 1, dot - 1))
        /\ dot < Len(tok)
        /\ \A i \in (dot + 1)..Len(tok) : IsDigit(tok[i])

\* Where a token can start in line: after whitespace, a dollar sign and any
\* further whitespace.
TokenStarts(line) ==
    {t \in DOMAIN line :
        \E d \in 2..(t - 1) :
            /\ line[d] = "$"
            /\ IsSpace(line[d - 1])
            /\ \A y \in (d + 1)..(t - 1) : IsSpace(line[y])}

\* The well-formed price tokens line carries there.
PriceTokens(line) ==
    {tok \in {SubSeq(line, t, u) : t \in TokenStarts(line), u \in DOMAIN line} :
        IsPriceToken(tok)}

\* C5: a line yields at most one record, and yields one only if it carries,
\* after whitespace, "$" and optional whitespace, a token digits(,digits)*.digits+
\* whose value, commas removed, is the record's cost.
C5_NumericToken ==
    parse.done =>
        /\ Len(parse.data) <= 1
        /\ parse.data # <<>> =>
              \E tok \in PriceTokens(parse.line) :
                  parse.data[1].costo = ToFloat(RemoveCommas(tok))

\* C10: no line yields a record whose description is empty.
C10_DescriptionNotEmpty ==
    (parse.done /\ parse.data # <<>>) => parse.data[1].descripcion # <<>>

-----------------------------------------------------------------------------
(* Properties of clean_description, under SpecClean.                       *)

StartsWithDigit(s) == s # <<>> /\ IsDigit(s[1])

\* C7 as stated: normalizing a normalized description changes nothing,
\* whatever the raw description was.
C7_IdempotentAlways ==
    clean.calls = 2 => clean.twice = clean.once

\* C7, amended: normalizing a normalized description changes nothing when
\* the normalized description does not begin with a digit.
C7_IdempotentWithoutLeadingDigit ==
    (clean.calls = 2 /\ ~StartsWithDigit(clean.once)) => clean.twice = clean.once

\* A description that lost its code and its blanks to the first call, and
\* is left alone by the second.
C7_Witness ==
    /\ clean.calls = 2
    /\ StartsWithDigit(clean.description)
    /\ clean.once # <<>>
    /\ Len(clean.once) + 2 <= Len(clean.description)
    /\ ~StartsWithDigit(clean.once)

-----------------------------------------------------------------------------
(* Properties of the price calculation, under SpecPrice.                   *)

\* A price of at most two decimals, in cents.
Cents(precio) == precio.mant * Pow10(2 - precio.exp)

\* precio is costo * (1 + utilidad / 100) rounded to two decimals: no other
\* number of cents is nearer to the product.
IsRounded(precio, costo, utilidad) ==
    LET product == costo.mant * (100 + utilidad)
        scale == Pow10(costo.exp)
        distance == Cents(precio) * scale - product
    IN  /\ precio.exp <= 2
        /\ 2 * distance <= scale
        /\ 2 * distance >= 0 - scale

\* Each price is made from the cost and its own margin alone.
OwnMargins ==
    \A i \in DOMAIN price.rows :
        /\ IsRounded(price.rows[i].precio_minorista, price.costo,
                     price.rows[i].utilidad_minorista)
        /\ IsRounded(price.rows[i].precio_mayorista, price.costo,
                     price.rows[i].utilidad_mayorista)

\* For the one cost, a larger margin never gives a smaller price.
Monotone ==
    \A i \in DOMAIN price.rows, j \in DOMAIN price.rows :
        /\ price.rows[i].utilidad_minorista < price.rows[j].utilidad_minorista
              => Cents(price.rows[i].precio_minorista)
                    <= Cents(price.rows[j].precio_minorista)
        /\ price.rows[i].utilidad_mayorista < price.rows[j].utilidad_mayorista
              => Cents(price.rows[i].precio_mayorista)
                    <= Cents(price.rows[j].precio_mayorista)

\* C6 as stated: each price is its own margin applied to the cost and
\* rounded to two decimals, grows with its margin, and under margin 0 is the
\* cost.
C6_PriceEqualsCostAtZero ==
    /\ OwnMargins
    /\ Monotone
    /\ \A i \in DOMAIN price.rows :
          /\ price.rows[i].utilidad_minorista = 0
                => price.rows[i].precio_minorista = price.costo
          /\ price.rows[i].utilidad_mayorista = 0
                => price.rows[i].precio_mayorista = price.costo

\* C6, amended: each price is its own margin applied to the cost and rounded
\* to two decimals, grows with its margin, and under margin 0 is the cost
\* rounded to two decimals.
C6_PriceIsRoundedCostAtZero ==
    /\ OwnMargins
    /\ Monotone
    /\ \A i \in DOMAIN price.rows :
          /\ price.rows[i].utilidad_minorista = 0
                => IsRounded(price.rows[i].precio_minorista, price.costo, 0)
          /\ price.rows[i].utilidad_mayorista = 0
                => IsRounded(price.rows[i].precio_mayorista, price.costo, 0)

\* A cost of three decimals priced under margin 0, where the price is not
\* the cost, and priced again under larger, different margins.
C6_Witness ==
    /\ Len(price.rows) = 2
    /\ price.costo.exp = 3
    /\ price.rows[1].utilidad_minorista = 0
    /\ price.rows[1].precio_minorista # price.costo
    /\ price.rows[2].utilidad_minorista > price.rows[2].utilidad_mayorista
    /\ price.rows[2].utilidad_mayorista > price.rows[1].utilidad_mayorista
    /\ price.rows[2].precio_minorista # price.rows[2].precio_mayorista

-----------------------------------------------------------------------------
(* Properties of the session cache, under SpecApp.                         *)

\* The cache is empty, no run having returned, or holds the three buffers
\* and the timestamp of the most recent run that returned, and the download
\* buttons offer exactly those under that timestamp.
CacheWhole ==
    \/ DOMAIN session_state = {} /\ last_ok.run = 0
    \/ /\ DOMAIN session_state = Keys
       /\ last_ok.run >= 1
       /\ \A key \in OutputKeys : session_state[key].run = last_ok.run
       /\ session_state["timestamp"] = last_ok.timestamp
       /\ DOMAIN DownloadButtons(session_state) = OutputKeys
       /\ \A key \in OutputKeys :
             /\ DownloadButtons(session_state)[key].data.run = last_ok.run
             /\ DownloadButtons(session_state)[key].file_name[2] = last_ok.timestamp

\* A press with a file missing only shows the error; a press whose run
\* raised leaves the cache as it was.
PressKeepsCache ==
    /\ (presses' # presses /\ ~(pdf_file.uploaded /\ excel_file.uploaded))
          => (notice' = "error" /\ UNCHANGED <<session_state, last_ok, result>>)
    /\ (presses' # presses /\ notice' \in {"error", "exception"})
          => UNCHANGED <<session_state, last_ok>>
    /\ presses' = presses => UNCHANGED <<session_state, last_ok>>

\* C9: after any presses the cache is empty or holds the three buffers and
\* the timestamp of one run, the most recent that returned; a press with a
\* file missing starts nothing and leaves the cache alone, and so does a
\* press whose run raises.
C9_CacheReplacedWholesale == [][CacheWhole /\ CacheWhole' /\ PressKeepsCache]_vars

\* The cache was replaced by a second run that returned, and a third press
\* then raised and left it.
C9_Witness ==
    /\ presses = 3
    /\ notice = "exception"
    /\ last_ok.run = 2
    /\ DOMAIN session_state = Keys
    /\ session_state["timestamp"] = 1

=============================================================================
